---- MODULE Spec2Model ----
(***************************************************************************)
(* The ark rebalancer of packages/ark-rebalancer/ark_rebalancer.py: the    *)
(* two helpers get_ark_rates and prepare_rebalance_data and the main loop  *)
(* that polls the ark rates, keeps the 12-slot history of the top ark and, *)
(* when one ark held the top for the whole window, builds, simulates and   *)
(* sends the rebalance transaction.                                        *)
(*                                                                         *)
(* The chain is the environment: every chain call either returns a value   *)
(* drawn from a small set or raises.  A pair (ark, rate) is <<ark, rate>>, *)
(* a rebalance entry is a record [fromArk, toArk, amount].  The locals of  *)
(* one loop iteration (sorted_rates, rebalance_data, transaction) are dead *)
(* at the top of the next one (each is assigned before it is read), so the *)
(* model forgets them when the sleep returns.                              *)
(***************************************************************************)
EXTENDS Integers, Sequences, FiniteSets, TLC

VARIABLES
    pc,             \* position of the main loop
    rate_history,   \* deque(maxlen=12) of <<ark, rate>>
    arks,           \* what fleet_commander.arks() returned in this cycle
    rate_read,      \* ark -> what rate() returned in this cycle (Fail: raised)
    sorted_rates,   \* result of get_ark_rates() in this cycle
    assets_read,    \* ark -> what totalAssets() returned in this cycle
    rebalance_data, \* result of prepare_rebalance_data() in this cycle
    transaction,    \* the transaction dict built in this cycle
    calls,          \* the calls of this cycle, in order, each <<name, outcome>>
    tx_count,       \* chain: number of mined transactions of the account
    in_flight,      \* chain: transactions sent whose receipt was never seen
    streak          \* number of consecutive latest pushes of one and the same ark

vars == << pc, rate_history, arks, rate_read, sorted_rates, assets_read,
           rebalance_data, transaction, calls, tx_count, in_flight, streak >>

----------------------------------------------------------------------------
(* Constants of the program *)

HistoryLen == 12
Threshold == 100

(* Bounds of the model *)

MaxRate == 2
MaxNonce == 2
MaxInFlight == 1

(* Values of the environment *)

Fail == -1
NoNonce == -1
Arks == {"A", "B", "C"}
LoopArks == {"A", "B"}
Rates == 0 .. MaxRate
Balances == {50, Threshold, Threshold + 1, 150, 300}
LoopBalances == {Threshold, 150}
LoopRate == [a \in LoopArks |-> IF a = "A" THEN 2 ELSE 1]
WideRate == [a \in Arks |-> IF a = "A" THEN 2 ELSE IF a = "B" THEN 1 ELSE 0]
WideListings == {<<>>, <<"C", "B", "A">>, <<"A", "C", "B">>}

NoFn == [a \in {} |-> 0]
NoTransaction == [data |-> <<>>, nonce |-> NoNonce]
NoStreak == [ark |-> "", n |-> 0]

Range(s) == {s[i] : i \in DOMAIN s}

Min(a, b) == IF a <= b THEN a ELSE b

\* the duplicate-free lists over a set of arks: the registry holds each ark once
Listings(S) == {s \in UNION {[1 .. n -> S] : n \in 0 .. Cardinality(S)} :
                   \A i, j \in DOMAIN s : i # j => s[i] # s[j]}

----------------------------------------------------------------------------
(* get_ark_rates *)

\* insert that puts x in front of the pairs of equal rate
RECURSIVE insert_unstable(_, _)
insert_unstable(s, x) ==
    IF s = <<>> THEN <<x>>
    ELSE IF s[1][2] > x[2] THEN <<s[1]>> \o insert_unstable(Tail(s), x)
    ELSE <<x>> \o s

\* x goes behind every pair whose rate is not lower: descending, and stable
RECURSIVE insert(_, _)
insert(s, x) ==
    IF s = <<>> THEN <<x>>
    ELSE IF s[1][2] >= x[2] THEN <<s[1]>> \o insert(Tail(s), x)
    ELSE <<x>> \o s

\* sorted(rates, key=lambda x: x[1], reverse=True)
RECURSIVE sorted(_)
sorted(rates) ==
    IF rates = <<>> THEN <<>>
    ELSE insert(sorted(SubSeq(rates, 1, Len(rates) - 1)), rates[Len(rates)])

\* read_rates that takes a failed read as rate 0
RECURSIVE read_rates_zero(_, _)
read_rates_zero(as, rd) ==
    IF as = <<>> THEN <<>>
    ELSE << <<as[1], IF rd[as[1]] # Fail THEN rd[as[1]] ELSE 0>> >>
         \o read_rates_zero(Tail(as), rd)

\* read_rates with the try around the whole loop: the first failure ends it
RECURSIVE read_rates_abort(_, _)
read_rates_abort(as, rd) ==
    IF as = <<>> THEN <<>>
    ELSE IF rd[as[1]] # Fail
         THEN << <<as[1], rd[as[1]]>> >> \o read_rates_abort(Tail(as), rd)
         ELSE <<>>

\* the loop over arks: a pair for every ark whose rate() call returned
RECURSIVE read_rates(_, _)
read_rates(as, rd) ==
    IF as = <<>> THEN <<>>
    ELSE (IF rd[as[1]] # Fail THEN << <<as[1], rd[as[1]]>> >> ELSE <<>>)
         \o read_rates(Tail(as), rd)

get_ark_rates(as, rd) == sorted(read_rates(as, rd))

----------------------------------------------------------------------------
(* prepare_rebalance_data *)

\* collect with the test amount >= 100
RECURSIVE collect_ge(_, _, _)
collect_ge(rest, top_ark, rd) ==
    IF rest = <<>> THEN <<>>
    ELSE (IF rd[rest[1][1]] # Fail /\ rd[rest[1][1]] >= Threshold
          THEN << [fromArk |-> rest[1][1], toArk |-> top_ark,
                   amount |-> rd[rest[1][1]]] >>
          ELSE <<>>)
         \o collect_ge(Tail(rest), top_ark, rd)

\* the loop over sorted_rates[1:]
RECURSIVE collect(_, _, _)
collect(rest, top_ark, rd) ==
    IF rest = <<>> THEN <<>>
    ELSE (IF rd[rest[1][1]] # Fail /\ rd[rest[1][1]] > Threshold
          THEN << [fromArk |-> rest[1][1], toArk |-> top_ark,
                   amount |-> rd[rest[1][1]]] >>
          ELSE <<>>)
         \o collect(Tail(rest), top_ark, rd)

\* prepare_rebalance_data that takes the lowest ranked ark as the destination
prepare_rebalance_data_last(sr, rd) ==
    IF sr = <<>> THEN <<>>
    ELSE collect(Tail(sr), sr[Len(sr)][1], rd)

prepare_rebalance_data(sr, rd) ==
    IF sr = <<>> THEN <<>>
    ELSE collect(Tail(sr), sr[1][1], rd)

\* the arks whose totalAssets() the planner reads
Others(sr) == IF sr = <<>> THEN {} ELSE {sr[i][1] : i \in 2 .. Len(sr)}

----------------------------------------------------------------------------
(* The main loop *)

\* append that drops the newest stored entry when the window is full
append_lifo(h, x) ==
    IF Len(h) < HistoryLen THEN Append(h, x)
    ELSE Append(SubSeq(h, 1, Len(h) - 1), x)

\* deque(maxlen=12).append
append(h, x) ==
    IF Len(h) < HistoryLen THEN Append(h, x) ELSE Append(Tail(h), x)

\* push that clears the history on an empty observation
push_reset(h, sr) == IF sr # <<>> THEN append(h, sr[1]) ELSE <<>>

\* if sorted_rates: rate_history.append(sorted_rates[0])
push(h, sr) == IF sr # <<>> THEN append(h, sr[1]) ELSE h

\* settled that asks for more entries than the window holds
settled_over(h) ==
    Len(h) > HistoryLen /\ \A i \in DOMAIN h : h[i][1] = h[1][1]

\* settled that compares the two ends of the window only
settled_ends(h) ==
    Len(h) = HistoryLen /\ h[Len(h)][1] = h[1][1]

\* len(rate_history) == 12 and all(ark == rate_history[0][0] for ark, _ in rate_history)
settled(h) ==
    Len(h) = HistoryLen /\ \A i \in DOMAIN h : h[i][1] = h[1][1]

\* the calls inside the inner try block
InnerTry == {"call", "get_transaction_count", "sign_transaction",
             "send_raw_transaction", "wait_for_transaction_receipt"}

\* handler with the simulation error swallowed: the flow goes on to the nonce
handler_swallow(site) ==
    IF site = "call" THEN "nonce"
    ELSE IF site \in InnerTry THEN "sleep10" ELSE "sleep60"

\* handler without the outer try: an error outside the inner try ends the process
handler_exit(site) == IF site \in InnerTry THEN "sleep10" ELSE "exit"

\* handler with one except clause around the whole cycle
handler_outer(site) == "sleep60"

\* handler with the broadcast outside the inner try
handler_send_long(site) ==
    IF site \in InnerTry \ {"send_raw_transaction"} THEN "sleep10" ELSE "sleep60"

\* where the loop is after `site` raised: the inner handler falls through to
\* the short sleep, the outer one sleeps long
handler(site) == IF site \in InnerTry THEN "sleep10" ELSE "sleep60"

Log(site, outcome) == Append(calls, <<site, outcome>>)

\* the streak of the latest pushes after a push of ark
Pushed(ark) ==
    IF streak.n > 0 /\ streak.ark = ark
    THEN [ark |-> ark, n |-> Min(streak.n + 1, HistoryLen)]
    ELSE [ark |-> ark, n |-> 1]

Init ==
    /\ pc = "loop"
    /\ rate_history = <<>>
    /\ arks = <<>>
    /\ rate_read = NoFn
    /\ sorted_rates = <<>>
    /\ assets_read = NoFn
    /\ rebalance_data = <<>>
    /\ transaction = NoTransaction
    /\ calls = <<>>
    /\ tx_count = 0
    /\ in_flight = 0
    /\ streak = NoStreak

\* fleet_commander.functions.arks().call() raises
ArksRaise ==
    /\ pc = "loop"
    /\ calls' = Log("get_ark_rates", "raise")
    /\ pc' = handler("get_ark_rates")
    /\ UNCHANGED << rate_history, arks, rate_read, sorted_rates, assets_read,
                    rebalance_data, transaction, tx_count, in_flight, streak >>

\* get_ark_rates() returns; the push and the check of the window
Poll(as, rd) ==
    /\ pc = "loop"
    /\ arks' = as
    /\ rate_read' = rd
    /\ sorted_rates' = get_ark_rates(as, rd)
    /\ calls' = Log("get_ark_rates", "ok")
    /\ rate_history' = push(rate_history, sorted_rates')
    /\ streak' = IF sorted_rates' # <<>> THEN Pushed(sorted_rates'[1][1]) ELSE streak
    /\ pc' = IF sorted_rates' # <<>> /\ settled(rate_history')
             THEN "prepare" ELSE "sleep10"
    /\ UNCHANGED << assets_read, rebalance_data, transaction, tx_count, in_flight >>

\* Prepare without the test of line 73: the transaction is built for any plan
Prepare_always(rd) ==
    /\ pc = "prepare"
    /\ assets_read' = rd
    /\ rebalance_data' = prepare_rebalance_data(sorted_rates, rd)
    /\ calls' = Log("prepare_rebalance_data", "ok")
    /\ pc' = "build"
    /\ UNCHANGED << rate_history, arks, rate_read, sorted_rates, transaction,
                    tx_count, in_flight, streak >>

\* prepare_rebalance_data(sorted_rates)
Prepare(rd) ==
    /\ pc = "prepare"
    /\ assets_read' = rd
    /\ rebalance_data' = prepare_rebalance_data(sorted_rates, rd)
    /\ calls' = Log("prepare_rebalance_data", "ok")
    /\ pc' = IF rebalance_data' # <<>> THEN "build" ELSE "sleep10"
    /\ UNCHANGED << rate_history, arks, rate_read, sorted_rates, transaction,
                    tx_count, in_flight, streak >>

\* a chain call at position `at` raises
Raise(at, site) ==
    /\ pc = at
    /\ calls' = Log(site, "raise")
    /\ pc' = handler(site)
    /\ UNCHANGED << rate_history, arks, rate_read, sorted_rates, assets_read,
                    rebalance_data, transaction, tx_count, in_flight, streak >>

\* rebalance(rebalance_data).build_transaction({... 'gasPrice': w3.eth.gas_price})
Build ==
    /\ pc = "build"
    /\ transaction' = [data |-> rebalance_data, nonce |-> NoNonce]
    /\ calls' = Log("build_transaction", "ok")
    /\ pc' = "simulate"
    /\ UNCHANGED << rate_history, arks, rate_read, sorted_rates, assets_read,
                    rebalance_data, tx_count, in_flight, streak >>

BuildRaise == Raise("build", "build_transaction")

\* w3.eth.call(transaction) returns
Simulate ==
    /\ pc = "simulate"
    /\ tx_count < MaxNonce
    /\ calls' = Log("call", "ok")
    /\ pc' = "nonce"
    /\ UNCHANGED << rate_history, arks, rate_read, sorted_rates, assets_read,
                    rebalance_data, transaction, tx_count, in_flight, streak >>

SimulateRaise == Raise("simulate", "call")

\* Nonce with the count read once, when the process started
Nonce_first ==
    /\ pc = "nonce"
    /\ transaction' = [transaction EXCEPT !.nonce = 0]
    /\ calls' = Log("get_transaction_count", "ok")
    /\ pc' = "sign"
    /\ UNCHANGED << rate_history, arks, rate_read, sorted_rates, assets_read,
                    rebalance_data, tx_count, in_flight, streak >>

\* transaction['nonce'] = w3.eth.get_transaction_count(account.address)
Nonce ==
    /\ pc = "nonce"
    /\ transaction' = [transaction EXCEPT !.nonce = tx_count]
    /\ calls' = Log("get_transaction_count", "ok")
    /\ pc' = "sign"
    /\ UNCHANGED << rate_history, arks, rate_read, sorted_rates, assets_read,
                    rebalance_data, tx_count, in_flight, streak >>

NonceRaise == Raise("nonce", "get_transaction_count")

\* account.sign_transaction(transaction)
Sign ==
    /\ pc = "sign"
    /\ calls' = Log("sign_transaction", "ok")
    /\ pc' = "send"
    /\ UNCHANGED << rate_history, arks, rate_read, sorted_rates, assets_read,
                    rebalance_data, transaction, tx_count, in_flight, streak >>

SignRaise == Raise("sign", "sign_transaction")

\* w3.eth.send_raw_transaction(signed_txn.rawTransaction)
Send ==
    /\ pc = "send"
    /\ calls' = Log("send_raw_transaction", "ok")
    /\ in_flight' = in_flight + 1
    /\ pc' = "wait"
    /\ UNCHANGED << rate_history, arks, rate_read, sorted_rates, assets_read,
                    rebalance_data, transaction, tx_count, streak >>

SendRaise == Raise("send", "send_raw_transaction")

\* Receipt that starts the window anew after a rebalance
Receipt_reset(status) ==
    /\ pc = "wait"
    /\ calls' = Log("wait_for_transaction_receipt", status)
    /\ in_flight' = in_flight - 1
    /\ tx_count' = tx_count + 1
    /\ rate_history' = <<>>
    /\ pc' = "sleep10"
    /\ UNCHANGED << arks, rate_read, sorted_rates, assets_read,
                    rebalance_data, transaction, streak >>

\* w3.eth.wait_for_transaction_receipt(tx_hash) returns a receipt
Receipt(status) ==
    /\ pc = "wait"
    /\ calls' = Log("wait_for_transaction_receipt", status)
    /\ in_flight' = in_flight - 1
    /\ tx_count' = tx_count + 1
    /\ pc' = "sleep10"
    /\ UNCHANGED << rate_history, arks, rate_read, sorted_rates, assets_read,
                    rebalance_data, transaction, streak >>

\* w3.eth.wait_for_transaction_receipt(tx_hash) raises (TimeExhausted)
WaitRaise ==
    /\ in_flight <= MaxInFlight
    /\ Raise("wait", "wait_for_transaction_receipt")

\* time.sleep returns; back to the top of the loop
Wake ==
    /\ pc \in {"sleep10", "sleep60"}
    /\ pc' = "loop"
    /\ arks' = <<>>
    /\ rate_read' = NoFn
    /\ sorted_rates' = <<>>
    /\ assets_read' = NoFn
    /\ rebalance_data' = <<>>
    /\ transaction' = NoTransaction
    /\ calls' = <<>>
    /\ UNCHANGED << rate_history, tx_count, in_flight, streak >>

Next ==
    \/ ArksRaise
    \/ \E as \in Listings(LoopArks) :
         \E rd \in [Range(as) -> {LoopRate[a] : a \in LoopArks} \cup {Fail}] :
           /\ \A a \in Range(as) : rd[a] \in {LoopRate[a], Fail}
           /\ Poll(as, rd)
    \/ \E rd \in [Others(sorted_rates) -> LoopBalances \cup {Fail}] : Prepare(rd)
    \/ Build
    \/ BuildRaise
    \/ Simulate
    \/ SimulateRaise
    \/ Nonce
    \/ NonceRaise
    \/ Sign
    \/ SignRaise
    \/ Send
    \/ SendRaise
    \/ \E status \in {"status 1", "status 0"} : Receipt(status)
    \/ WaitRaise
    \/ Wake

Spec == Init /\ [][Next]_vars

\* the sleep returns
FairSpec == Spec /\ WF_vars(Wake)

----------------------------------------------------------------------------
(* The main loop with an interrupt.  The program installs no signal handler
   and both except clauses name Exception: a SIGINT raises KeyboardInterrupt,
   which neither clause catches, and a SIGTERM ends the process at once. *)

Signal ==
    /\ pc # "exit"
    /\ pc' = "exit"
    /\ UNCHANGED << rate_history, arks, rate_read, sorted_rates, assets_read,
                    rebalance_data, transaction, calls, tx_count, in_flight,
                    streak >>

NextSignal ==
    \/ Next
    \/ Signal

SpecSignal == Init /\ [][NextSignal]_vars

----------------------------------------------------------------------------
(* The main loop with three arks listed.  A (rate 2) or B (rate 1) answers
   its rate read in every poll, so that the top ark is A or B; every other
   read may fail. *)

NextWide ==
    \/ ArksRaise
    \/ \E as \in WideListings :
         \E failed \in SUBSET Range(as) :
           /\ as # <<>> => ~({"A", "B"} \subseteq failed)
           /\ Poll(as, [a \in Range(as) |-> IF a \in failed THEN Fail ELSE WideRate[a]])
    \/ \E rd \in [Others(sorted_rates) -> LoopBalances \cup {Fail}] : Prepare(rd)
    \/ Build
    \/ BuildRaise
    \/ Simulate
    \/ SimulateRaise
    \/ Nonce
    \/ NonceRaise
    \/ Sign
    \/ SignRaise
    \/ Send
    \/ SendRaise
    \/ \E status \in {"status 1", "status 0"} : Receipt(status)
    \/ WaitRaise
    \/ Wake

SpecWide == Init /\ [][NextWide]_vars

\* every call returns or raises, and the sleep returns
LiveWide == SpecWide /\ WF_vars(NextWide)

----------------------------------------------------------------------------
(* get_ark_rates alone, on every listing and every outcome of the reads *)

Idle ==
    /\ rate_history = <<>>
    /\ calls = <<>>
    /\ transaction = NoTransaction
    /\ tx_count = 0
    /\ in_flight = 0
    /\ streak = NoStreak

InitRank ==
    /\ pc = "rank"
    /\ arks \in Listings(Arks)
    /\ rate_read \in [Range(arks) -> Rates \cup {Fail}]
    /\ sorted_rates = <<>>
    /\ assets_read = NoFn
    /\ rebalance_data = <<>>
    /\ Idle

Rank ==
    /\ pc = "rank"
    /\ sorted_rates' = get_ark_rates(arks, rate_read)
    /\ pc' = "ranked"
    /\ UNCHANGED << rate_history, arks, rate_read, assets_read, rebalance_data,
                    transaction, calls, tx_count, in_flight, streak >>

NextRank == Rank

SpecRank == InitRank /\ [][NextRank]_vars

(* prepare_rebalance_data alone, on every ranked observation and every
   outcome of the balance reads *)

Observations ==
    UNION {{get_ark_rates(as, rd) : rd \in [Range(as) -> Rates \cup {Fail}]} :
           as \in Listings(Arks)}

InitPlan ==
    /\ pc = "plan"
    /\ arks = <<>>
    /\ rate_read = NoFn
    /\ sorted_rates \in Observations
    /\ assets_read \in [Others(sorted_rates) -> Balances \cup {Fail}]
    /\ rebalance_data = <<>>
    /\ Idle

Plan ==
    /\ pc = "plan"
    /\ rebalance_data' = prepare_rebalance_data(sorted_rates, assets_read)
    /\ pc' = "planned"
    /\ UNCHANGED << rate_history, arks, rate_read, sorted_rates, assets_read,
                    transaction, calls, tx_count, in_flight, streak >>

NextPlan == Plan

SpecPlan == InitPlan /\ [][NextPlan]_vars

----------------------------------------------------------------------------
(* Properties *)

Called(site) == \E i \in DOMAIN calls : calls[i][1] = site
Raised(site) == \E i \in DOMAIN calls : calls[i] = <<site, "raise">>
Sleeping == pc \in {"sleep10", "sleep60"}

\* the cycle got to line 70: the poll returned a non-empty observation
Evaluated ==
    /\ calls # <<>>
    /\ calls[1] = <<"get_ark_rates", "ok">>
    /\ sorted_rates # <<>>

\* the planner is or was invoked in this cycle
Dispatched == pc = "prepare" \/ Called("prepare_rebalance_data")

\* C1: in a cycle that reached the evaluation of the window, the planner is
\* invoked if and only if the 12 latest pushes carried one and the same
\* ark; with fewer than 12 pushes, or after a push of another ark, it is not
\* invoked until 12 consecutive pushes of one ark were made.
C1_SettledIffTwelveEqualPushes ==
    Evaluated => (Dispatched <=> streak.n = HistoryLen)

C1_Witness ==
    /\ pc = "prepare"
    /\ tx_count > 0
    /\ rate_history[1][1] = "B"

\* C2: in a cycle whose simulation (w3.eth.call) raised, no nonce is fetched,
\* nothing is signed and nothing is sent.
C2_NoBroadcastAfterFailedSimulation ==
    Raised("call") =>
        /\ ~Called("get_transaction_count")
        /\ ~Called("sign_transaction")
        /\ ~Called("send_raw_transaction")
        /\ transaction.nonce = NoNonce
        /\ pc \notin {"nonce", "sign", "send", "wait"}

C2_Witness == pc = "sleep10" /\ Raised("call")

\* C3: the plan holds no entry with amount <= 100 and no entry from an ark to
\* itself, and it is empty when no balance read returned more than 100.
C3_PlanEntriesValid ==
    pc = "planned" =>
        /\ \A i \in DOMAIN rebalance_data :
              /\ rebalance_data[i].amount > Threshold
              /\ rebalance_data[i].fromArk # rebalance_data[i].toArk
        /\ (\A a \in DOMAIN assets_read : assets_read[a] <= Threshold)
              => rebalance_data = <<>>

C3_Witness ==
    /\ pc = "planned"
    /\ Len(sorted_rates) = 3
    /\ assets_read[sorted_rates[2][1]] = Threshold
    /\ assets_read[sorted_rates[3][1]] = Threshold + 1
    /\ Len(rebalance_data) = 1

\* C4: the process never leaves the loop, and a cycle in which a call raised
\* is followed by the top of the loop again.
C4_LoopSurvivesFailure ==
    /\ [](pc # "exit")
    /\ ((\E i \in DOMAIN calls : calls[i][2] = "raise") ~> pc = "loop")

C4_Witness == pc = "loop" /\ rate_history # <<>> /\ in_flight > 0

\* C5 (as claimed): when the arks() call fails, the cycle sleeps the short
\* interval, as for an empty observation.
C5_RegistryFailureSleepsShort ==
    (Raised("get_ark_rates") /\ Sleeping) => pc = "sleep10"

\* C6 (as claimed): no transaction is sent while an earlier one has no
\* observed receipt, also after a receipt wait that raised.
C6_SingleFlight ==
    pc = "wait" => in_flight = 1

\* C7 (as claimed): an unexpected exception anywhere in the cycle is followed
\* by the long sleep.
C7_AnyErrorSleepsLong ==
    \A site \in {"get_ark_rates", "build_transaction", "get_transaction_count",
                 "send_raw_transaction", "wait_for_transaction_receipt"} :
        (Raised(site) /\ Sleeping) => pc = "sleep60"

\* C7 (amended): an exception of the registry read or of the build of the
\* transaction (the gas price read) is followed by the long sleep; an
\* exception of the simulation, the nonce fetch, the signing, the broadcast
\* or the receipt wait is followed by the short sleep.
C7_ErrorSleepByPlace ==
    /\ \A site \in {"get_ark_rates", "build_transaction"} :
          (Raised(site) /\ Sleeping) => pc = "sleep60"
    /\ \A site \in {"call", "get_transaction_count", "sign_transaction",
                    "send_raw_transaction", "wait_for_transaction_receipt"} :
          (Raised(site) /\ Sleeping) => pc = "sleep10"

C7_Witness == pc = "sleep10" /\ Raised("wait_for_transaction_receipt")

\* the pairs get_ark_rates was given: the listed arks whose rate read returned
RatePairs == {<<a, rate_read[a]>> : a \in {b \in Range(arks) : rate_read[b] # Fail}}

Position(a) == CHOOSE i \in DOMAIN arks : arks[i] = a

\* C8: the ranked output is a permutation of the pairs read, in descending
\* order of rate, pairs of equal rate in the order of the registry.
C8_RankedStableDescending ==
    pc = "ranked" =>
        /\ Range(sorted_rates) = RatePairs
        /\ Len(sorted_rates) = Cardinality(RatePairs)
        /\ \A i, j \in DOMAIN sorted_rates :
              i < j =>
                /\ sorted_rates[i][2] >= sorted_rates[j][2]
                /\ sorted_rates[i][2] = sorted_rates[j][2]
                     => Position(sorted_rates[i][1]) < Position(sorted_rates[j][1])

C8_Witness ==
    /\ pc = "ranked"
    /\ Len(sorted_rates) = 3
    /\ sorted_rates[1][2] = sorted_rates[2][2]
    /\ sorted_rates[2][2] > sorted_rates[3][2]
    /\ sorted_rates[3][1] = arks[1]

\* the step in which get_ark_rates returns
PollStep == pc = "loop" /\ calls' = << <<"get_ark_rates", "ok">> >>

\* exactly one push of x: x is last, what was there keeps its order, the oldest
\* entry leaves when the window was full
OnePush(h, x, g) ==
    /\ Len(g) = Min(Len(h) + 1, HistoryLen)
    /\ g[Len(g)] = x
    /\ \A i \in 1 .. Len(g) - 1 : g[i] = h[i + Len(h) + 1 - Len(g)]

\* C9: a poll with a non-empty observation pushes its rank-0 entry once; a
\* poll with an empty observation, a chain read that raised and every other
\* step leave the history as it is.
C9_HistoryChangesOnlyByPush ==
    [][ IF PollStep /\ sorted_rates' # <<>>
        THEN OnePush(rate_history, sorted_rates'[1], rate_history')
        ELSE rate_history' = rate_history ]_vars

C9_Witness ==
    /\ pc = "sleep10"
    /\ calls = << <<"get_ark_rates", "ok">> >>
    /\ sorted_rates = <<>>
    /\ Len(rate_history) = HistoryLen

\* the plan the claim describes: the ranked arks after rank 0 whose balance
\* read returned more than 100, in rank order, each moved whole to rank 0
Movable(p) == assets_read[p[1]] # Fail /\ assets_read[p[1]] > Threshold

ExpectedPlan ==
    IF sorted_rates = <<>> THEN <<>>
    ELSE LET kept == SelectSeq(Tail(sorted_rates), Movable)
         IN  [i \in 1 .. Len(kept) |->
                 [fromArk |-> kept[i][1], toArk |-> sorted_rates[1][1],
                  amount |-> assets_read[kept[i][1]]]]

\* C10: the plan is exactly one entry {from T, to L, balance(T)} for each
\* ranked ark T after the leader L whose balance read returned more than 100,
\* in rank order; for A(150), B(50) and leader C it is [A -> C, 150].
C10_PlanIsExact ==
    pc = "planned" =>
        /\ rebalance_data = ExpectedPlan
        /\ ( /\ Len(sorted_rates) = 3
             /\ sorted_rates[1][1] = "C"
             /\ assets_read["A"] = 150
             /\ assets_read["B"] = 50 )
           => rebalance_data = << [fromArk |-> "A", toArk |-> "C", amount |-> 150] >>

C10_Witness ==
    /\ pc = "planned"
    /\ Len(sorted_rates) = 3
    /\ sorted_rates[1][1] = "C"
    /\ assets_read["A"] = 150
    /\ assets_read["B"] = 50
    /\ Len(rebalance_data) = 1

\* C11: a failed rate() or totalAssets() read leaves out that ark alone: the
\* ranking holds every listed ark whose rate read returned, the plan every
\* ranked ark after rank 0 whose balance read returned more than 100, and the
\* long sleep (the outer handler) is reached only after a call that raised.
C11_ReadFailureIsLocal ==
    /\ (calls # <<>> /\ calls[1] = <<"get_ark_rates", "ok">>) =>
          /\ {sorted_rates[i][1] : i \in DOMAIN sorted_rates}
                = {a \in Range(arks) : rate_read[a] # Fail}
          /\ \A i \in DOMAIN sorted_rates :
                sorted_rates[i][2] = rate_read[sorted_rates[i][1]]
    /\ Called("prepare_rebalance_data") =>
          /\ {rebalance_data[i].fromArk : i \in DOMAIN rebalance_data}
                = {a \in Others(sorted_rates) :
                      assets_read[a] # Fail /\ assets_read[a] > Threshold}
          /\ \A i \in DOMAIN rebalance_data :
                rebalance_data[i].amount = assets_read[rebalance_data[i].fromArk]
    /\ pc = "sleep60" => \E i \in DOMAIN calls : calls[i][2] = "raise"
    /\ pc # "exit"

C11_Witness ==
    /\ pc = "wait"
    /\ Len(sorted_rates) = 3
    /\ assets_read[sorted_rates[2][1]] = Fail
    /\ Len(rebalance_data) = 1
    /\ rebalance_data[1].fromArk = sorted_rates[3][1]

\* the ways a cycle ends that the claim lists
EmptyRates == calls = << <<"get_ark_rates", "ok">> >> /\ sorted_rates = <<>>
NotSettled == Evaluated /\ ~Dispatched
EmptyPlan == Called("prepare_rebalance_data") /\ rebalance_data = <<>>
ReceiptSeen == \E i \in DOMAIN calls :
                  /\ calls[i][1] = "wait_for_transaction_receipt"
                  /\ calls[i][2] \in {"status 1", "status 0"}

\* C12: a cycle that ends with empty rates, an unsettled window, an empty
\* plan, a failed simulation, a failed broadcast, a failed confirmation or a
\* receipt (success or reverted) is followed by the short sleep.
C12_RecoverableSleepsShort ==
    ( /\ Sleeping
      /\ \/ EmptyRates
         \/ NotSettled
         \/ EmptyPlan
         \/ Raised("call")
         \/ Raised("send_raw_transaction")
         \/ Raised("wait_for_transaction_receipt")
         \/ ReceiptSeen )
    => pc = "sleep10"

C12_Witness ==
    /\ pc = "sleep10"
    /\ Raised("send_raw_transaction")

Broadcast == \E i \in DOMAIN calls : calls[i] = <<"send_raw_transaction", "ok">>

\* C13: a cycle that broadcasts made its calls in the order build, simulate,
\* nonce fetch, sign, send, wait, each of the first four returning; the nonce
\* is unset until the simulation passed, and the nonce signed and sent is the
\* account's count as the chain holds it in that cycle.
C13_FreshNonceInOrder ==
    /\ Broadcast =>
          /\ SubSeq(calls, 1, 7)
                = << <<"get_ark_rates", "ok">>, <<"prepare_rebalance_data", "ok">>,
                     <<"build_transaction", "ok">>, <<"call", "ok">>,
                     <<"get_transaction_count", "ok">>, <<"sign_transaction", "ok">>,
                     <<"send_raw_transaction", "ok">> >>
          /\ Len(calls) > 7 =>
                (Len(calls) = 8 /\ calls[8][1] = "wait_for_transaction_receipt")
    /\ pc \in {"simulate", "nonce"} => transaction.nonce = NoNonce
    /\ pc \in {"sign", "send", "wait"} => transaction.nonce = tx_count
    /\ (Broadcast /\ ReceiptSeen) => transaction.nonce = tx_count - 1

C13_Witness ==
    /\ pc = "wait"
    /\ transaction.nonce = 1

\* C14: with an empty plan nothing is built, simulated, signed or sent and the
\* cycle ends; a transaction is built and sent only for a non-empty plan,
\* which it carries.
C14_EmptyPlanNoTransaction ==
    /\ EmptyPlan =>
          /\ ~Called("build_transaction")
          /\ ~Called("call")
          /\ ~Called("sign_transaction")
          /\ ~Called("send_raw_transaction")
          /\ transaction = NoTransaction
          /\ pc = "sleep10"
    /\ (Called("build_transaction") \/ Broadcast) => rebalance_data # <<>>
    /\ Broadcast => transaction.data = rebalance_data

C14_Witness ==
    /\ pc = "sleep10"
    /\ EmptyPlan
    /\ Len(sorted_rates) = 2
    /\ assets_read[sorted_rates[2][1]] = Threshold

\* the poll of this step returns an observation led by the ark of the window
SameLeaderPoll ==
    /\ PollStep
    /\ sorted_rates' # <<>>
    /\ streak.n > 0
    /\ sorted_rates'[1][1] = streak.ark

\* C15: the steps of a rebalance attempt (simulation, nonce, signing, send,
\* wait, whatever their outcome) and the sleep after it leave the history as
\* the push of that cycle left it, and a next poll with the same leader is
\* settled again and invokes the planner.
C15_AttemptKeepsHistory ==
    [][ /\ (Called("build_transaction") /\ ~PollStep)
            => rate_history' = rate_history
        /\ (streak.n = HistoryLen /\ SameLeaderPoll) => pc' = "prepare" ]_vars

C15_Witness ==
    /\ pc = "prepare"
    /\ tx_count = 1
    /\ in_flight = 1

\* C16: the history never holds more than 12 entries, and a push into a
\* full history drops its oldest entry, keeps the other 11 in order and puts
\* the new entry last.
C16_BoundedFifo ==
    /\ [](Len(rate_history) <= HistoryLen)
    /\ [][ (PollStep /\ sorted_rates' # <<>> /\ Len(rate_history) = HistoryLen)
            => rate_history' = Tail(rate_history) \o << sorted_rates'[1] >> ]_vars

C16_Witness ==
    /\ Len(rate_history) = HistoryLen
    /\ streak.n = 1
    /\ rate_history[HistoryLen - 1][1] # rate_history[HistoryLen][1]
    /\ rate_history[1][1] # rate_history[2][1]
    /\ tx_count > 0

\* C17 (as claimed): when the process stops on a signal, no transaction was
\* sent without its receipt having been seen.
C17_GracefulShutdown ==
    pc = "exit" => in_flight = 0

\* a transaction exists: it is being simulated, signed, sent or waited for
InTransaction ==
    pc \in {"simulate", "nonce", "sign", "send", "wait"} \/ Called("call")

\* C18: every entry of a transaction that is simulated or sent has the same
\* destination: rank 0 of this cycle's observation, which is the ark in all
\* 12 slots of the history.
C18_OneDestination ==
    InTransaction =>
        /\ transaction.data # <<>>
        /\ Len(rate_history) = HistoryLen
        /\ \A i \in DOMAIN transaction.data :
              /\ transaction.data[i].toArk = sorted_rates[1][1]
              /\ \A j \in 1 .. HistoryLen :
                    rate_history[j][1] = transaction.data[i].toArk

C18_Witness ==
    /\ pc = "wait"
    /\ Len(transaction.data) = 2
    /\ tx_count = 1

\* the listed arks whose rate read returned, and the best of them: highest
\* rate, first listed among equals
Answered == {a \in Range(arks) : rate_read[a] # Fail}

TopAnswered ==
    CHOOSE a \in Answered :
        \A b \in Answered :
            \/ rate_read[a] > rate_read[b]
            \/ (rate_read[a] = rate_read[b] /\ Position(a) <= Position(b))

\* C19: an ark whose rate read failed is neither source nor destination of an
\* entry of the plan or of the transaction of that cycle, and the entry pushed
\* is the best ark among those whose read returned: the next ranked one when
\* the read of the highest-rate ark failed.
C19_FailedArkLeftOut ==
    (calls # <<>> /\ calls[1] = <<"get_ark_rates", "ok">>) =>
        /\ \A a \in Range(arks) :
              rate_read[a] = Fail =>
                /\ \A i \in DOMAIN rebalance_data :
                      rebalance_data[i].fromArk # a /\ rebalance_data[i].toArk # a
                /\ \A i \in DOMAIN transaction.data :
                      /\ transaction.data[i].fromArk # a
                      /\ transaction.data[i].toArk # a
        /\ Answered # {} =>
              rate_history[Len(rate_history)] = <<TopAnswered, rate_read[TopAnswered]>>

C19_Witness ==
    /\ pc = "wait"
    /\ rate_read["A"] = Fail
    /\ transaction.data = << [fromArk |-> "C", toArk |-> "B", amount |-> 150] >>

\* the cycle, as far as it got, is one of the steady cycles with leader L: no
\* call raised, the poll is non-empty and led by L, and the balances read for
\* the plan hold one above the threshold
Steady(L) ==
    /\ \A i \in DOMAIN calls : calls[i][2] # "raise"
    /\ calls # <<>> => (sorted_rates # <<>> /\ sorted_rates[1][1] = L)
    /\ Called("prepare_rebalance_data") =>
          \E o \in DOMAIN assets_read : assets_read[o] > Threshold

\* a transaction moving funds to L was broadcast in this cycle
Served(L) ==
    /\ Broadcast
    /\ transaction.data # <<>>
    /\ \A i \in DOMAIN transaction.data : transaction.data[i].toArk = L

\* C20: when from some cycle on every cycle is steady with one leader L, a
\* transaction moving funds to L is broadcast: no behaviour stays steady for
\* ever without one, and a steady cycle whose push is the 12th consecutive
\* one of L does not go to sleep without it.
C20_SteadyLeaderServed ==
    /\ []<>(~Steady("A") \/ Served("A"))
    /\ []<>(~Steady("B") \/ Served("B"))
    /\ [](\A L \in LoopArks :
            (Sleeping /\ calls # <<>> /\ Steady(L) /\ streak.n >= HistoryLen)
                => Served(L))

C20_Witness ==
    /\ pc = "sleep10"
    /\ Steady("B")
    /\ Served("B")
    /\ rate_read["A"] = Fail
    /\ calls[Len(calls)] = <<"wait_for_transaction_receipt", "status 1">>

====
